---- MODULE Spec2Model ----
(***************************************************************************)
(* FileNet CPE log analyzer (src/filenet_cpe_log_analyzer.py).             *)
(*                                                                         *)
(* Text is modelled as a sequence of characters, each character a string   *)
(* of the alphabet below, so that the regular expressions of the program   *)
(* (LOG_LINE_RE, the placeholder substitutions, the relative-time tokens)  *)
(* are computed character by character.  The two non-ASCII characters of   *)
(* the program, U+2013 and U+2026, are the atoms EnDash and Ellipsis.      *)
(***************************************************************************)
EXTENDS Integers, Sequences, FiniteSets, TLC

VARIABLES
    pc,             \* main: the position of the run
    args,           \* main: the parsed command line
    exc,            \* the exception that ended the run, if any
    io,             \* the file and process operations performed so far, in order
    disk,           \* the matched files of the log directory: path -> lines
    files,          \* parse_logs: the sorted list of matched paths
    fi,             \* parse_logs: index in files of the file being processed
    fh,             \* parse_logs: the lines of the open file
    li,             \* parse_logs: index of the next line of the open file
    rows,           \* parse_logs: the records appended so far; main: its result
    now,            \* main: datetime.now() of line 629
    since_dt,       \* the lower bound of the time window (optional)
    until_dt,       \* the upper bound of the time window
    families,       \* main: the dict family -> records, in insertion order
    summary,        \* main: the sorted summary
    example_rows,   \* main: the example rows
    series,         \* main: daily, hourly, fam_daily, fam_hourly
    nm_pc,          \* normalize_message: position ("idle", "call", "subst", "ret")
    nm_msg,         \* normalize_message: the argument msg
    nm_text,        \* normalize_message: m after lines 58-61
    nm_ret          \* normalize_message: the returned family

nmVars == <<nm_pc, nm_msg, nm_text, nm_ret>>

runVars ==
    <<pc, args, exc, io, disk, files, fi, fh, li, rows, now, since_dt, until_dt,
      families, summary, example_rows, series>>

vars ==
    <<pc, args, exc, io, disk, files, fi, fh, li, rows, now, since_dt, until_dt,
      families, summary, example_rows, series, nm_pc, nm_msg, nm_text, nm_ret>>

-----------------------------------------------------------------------------
(* Bounds of the model. *)

\* Number of pieces a message given to normalize_message is built from.
MaxPieces == 2

\* Number of lines, over all files, of the log directory of a whole run.
MaxLines == 3

\* Number of lines, over all files, of the log directory of a call of parse_logs.
MaxParseLines == 2

\* Number of <integer><unit> tokens a relative-time expression is built from.
MaxTokens == 2

-----------------------------------------------------------------------------
(* Characters and character classes (Python re: \d, \w, \s, \b). *)

EnDash == "EN_DASH"
Ellipsis == "ELLIPSIS"

Digits == {"0", "1", "2", "3", "4", "5", "6", "7", "8", "9"}

UpperLetters ==
    {"A", "B", "C", "D", "E", "F", "G", "H", "I", "J", "K", "L", "M",
     "N", "O", "P", "Q", "R", "S", "T", "U", "V", "W", "X", "Y", "Z"}

LowerLetters ==
    {"a", "b", "c", "d", "e", "f", "g", "h", "i", "j", "k", "l", "m",
     "n", "o", "p", "q", "r", "s", "t", "u", "v", "w", "x", "y", "z"}

SpaceChars == {" ", "\t", "\n", "\r", "\f"}

WordChars == UpperLetters \cup LowerLetters \cup Digits \cup {"_"}

\* Every character of the model.
Alphabet ==
    WordChars \cup SpaceChars \cup {"(", ")", "-", ".", "/", ":", "[", "]", "{", "}"}
        \cup {EnDash, Ellipsis}

IsSpace(c) == c \in SpaceChars

SetMax(S) == CHOOSE x \in S : \A y \in S : y <= x

SetMin(S) == CHOOSE x \in S : \A y \in S : x <= y

\* The character at position k is a word character (false outside the text).
IsWordAt(m, k) == k >= 1 /\ k <= Len(m) /\ m[k] \in WordChars

\* \b holds in front of position p (p = Len(m) + 1 is the end of the text).
WordBoundary(m, p) == IsWordAt(m, p - 1) # IsWordAt(m, p)

\* Length of the longest run of characters of a class that starts at position i.
RECURSIVE RunLen(_, _, _)
RunLen(class, m, i) ==
    IF i > Len(m) \/ m[i] \notin class THEN 0 ELSE 1 + RunLen(class, m, i + 1)

\* The k characters from position i on exist and are hexadecimal digits.
HexRun(m, i, k) ==
    /\ i + k - 1 <= Len(m)
    /\ \A j \in i..(i + k - 1) :
          m[j] \in Digits \cup {"a", "b", "c", "d", "e", "f", "A", "B", "C", "D", "E", "F"}

DashAt(m, i) == i <= Len(m) /\ m[i] = "-"

\* t in m (Python: substring containment).
Contains(m, t) ==
    \E i \in 1..(Len(m) - Len(t) + 1) : SubSeq(m, i, i + Len(t) - 1) = t

\* str.strip()
RECURSIVE LStrip(_)
LStrip(m) == IF m # <<>> /\ IsSpace(Head(m)) THEN LStrip(Tail(m)) ELSE m

RECURSIVE RStrip(_)
RStrip(m) ==
    IF m # <<>> /\ IsSpace(m[Len(m)]) THEN RStrip(SubSeq(m, 1, Len(m) - 1)) ELSE m

Strip(m) == RStrip(LStrip(m))

-----------------------------------------------------------------------------
(* normalize_message: the literals of lines 58-73. *)

TrigWsiLogin ==
    <<"[", "W", "S", "I", "A", "u", "t", "h", "e", "n", "t", "i", "c", "a", "t", "o", "r", "I",
      "m", "p", "l", "]", " ", "l", "o", "g", "i", "n", " ", "e", "x", "c", "e", "p", "t", "i",
      "o", "n">>

TrigWsi ==
    <<"W", "S", "I", "A", "u", "t", "h", "e", "n", "t", "i", "c", "a", "t", "o", "r", "I", "m",
      "p", "l">>

TrigCheckName ==
    <<"M", "e", "t", "h", "o", "d", "N", "a", "m", "e", ":", " ", "c", "h", "e", "c", "k", "N",
      "a", "m", "e", "C", "o", "l", "l", "i", "s", "i", "o", "n">>

TrigNotUnique ==
    <<"E", "_", "N", "O", "T", "_", "U", "N", "I", "Q", "U", "E">>

TrigFnrce0043e ==
    <<"F", "N", "R", "C", "E", "0", "0", "4", "3", "E">>

TrigGetContent ==
    <<"M", "e", "t", "h", "o", "d", "N", "a", "m", "e", ":", " ", "g", "e", "t", "C", "o", "n",
      "t", "e", "n", "t">>

TrigFnrce0066e ==
    <<"F", "N", "R", "C", "E", "0", "0", "6", "6", "E">>

TrigUnexpected ==
    <<"E", "_", "U", "N", "E", "X", "P", "E", "C", "T", "E", "D", "_", "E", "X", "C", "E", "P",
      "T", "I", "O", "N">>

TrigTtl ==
    <<"T", "T", "L", "S", "t", "r", "e", "a", "m", "R", "e", "a", "p", "e", "r">>

LabelWsi ==
    <<"W", "S", "I", "A", "u", "t", "h", "e", "n", "t", "i", "c", "a", "t", "o", "r", "I", "m",
      "p", "l", " ", "l", "o", "g", "i", "n", " ", "e", "x", "c", "e", "p", "t", "i", "o", "n",
      " ", "(", "a", "u", "t", "h", "e", "n", "t", "i", "c", "a", "t", "i", "o", "n", " ", "f",
      "a", "i", "l", "u", "r", "e", "s", ")">>

LabelNameCollision ==
    <<"c", "h", "e", "c", "k", "N", "a", "m", "e", "C", "o", "l", "l", "i", "s", "i", "o", "n",
      " ", "/", " ", "F", "N", "R", "C", "E", "0", "0", "4", "3", "E", " ", "(", "E", "_", "N",
      "O", "T", "_", "U", "N", "I", "Q", "U", "E", ")", " ", EnDash, " ", "N", "a", "m",
      "e", " ", "a", "l", "r", "e", "a", "d", "y", " ", "e", "x", "i", "s", "t", "s">>

LabelGetContent ==
    <<"g", "e", "t", "C", "o", "n", "t", "e", "n", "t", " ", "f", "a", "i", "l", "u", "r", "e",
      "s", " ", "(", "c", "o", "n", "t", "e", "n", "t", " ", "r", "e", "t", "r", "i", "e", "v",
      "a", "l", ")">>

LabelUnexpected ==
    <<"F", "N", "R", "C", "E", "0", "0", "6", "6", "E", " ", "(", "E", "_", "U", "N", "E", "X",
      "P", "E", "C", "T", "E", "D", "_", "E", "X", "C", "E", "P", "T", "I", "O", "N", ")", " ",
      EnDash, " ", "u", "n", "e", "x", "p", "e", "c", "t", "e", "d", " ", "e", "r", "r",
      "o", "r">>

LabelTtl ==
    <<"T", "T", "L", "S", "t", "r", "e", "a", "m", "R", "e", "a", "p", "e", "r", " ", "s", "c",
      "h", "e", "d", "u", "l", "i", "n", "g", " ", "i", "s", "s", "u", "e">>

\* Minimal lengths of the {ID} and {NUM} patterns and the length of the fallback family.
IdMinLen == 8

NumMinLen == 6

FamilyMaxLen == 140

\* \b[0-9a-fA-F]{8}-[0-9a-fA-F]{4}-[0-9a-fA-F]{4}-[0-9a-fA-F]{4}-[0-9a-fA-F]{12}\b at i
GuidMatchLen(m, i) ==
    IF /\ WordBoundary(m, i)
       /\ HexRun(m, i, 8) /\ DashAt(m, i + 8)
       /\ HexRun(m, i + 9, 4) /\ DashAt(m, i + 13)
       /\ HexRun(m, i + 14, 4) /\ DashAt(m, i + 18)
       /\ HexRun(m, i + 19, 4) /\ DashAt(m, i + 23)
       /\ HexRun(m, i + 24, 12)
       /\ WordBoundary(m, i + 36)
    THEN 36 ELSE 0

\* \b<class>{least,}\b at i: the greedy run, given back until \b holds after it.
BoundedRunMatchLen(class, least, m, i) ==
    IF ~WordBoundary(m, i) THEN 0
    ELSE LET n == RunLen(class, m, i)
             ok == {k \in least..n : WordBoundary(m, i + k)}
         IN  IF ok = {} THEN 0 ELSE SetMax(ok)

\* The length of the match of one of the four patterns of lines 58-61 at i, 0 for
\* none: the GUID, \b[A-Z0-9]{8,}\b, \b\d{6,}\b, \s+.
MatchLen(pattern, m, i) ==
    IF pattern = "GUID" THEN GuidMatchLen(m, i)
    ELSE IF pattern = "ID" THEN BoundedRunMatchLen(UpperLetters \cup Digits, IdMinLen, m, i)
    ELSE IF pattern = "NUM" THEN BoundedRunMatchLen(Digits, NumMinLen, m, i)
    ELSE RunLen(SpaceChars, m, i)

\* re.sub(pattern, repl, m) for these patterns, none of which matches the empty
\* string: the leftmost match at or behind position i is replaced, the text in front
\* of it is kept, and the scan resumes behind the match.
RECURSIVE ReSubFrom(_, _, _, _)
ReSubFrom(pattern, repl, m, i) ==
    LET starts == {j \in i..Len(m) : MatchLen(pattern, m, j) > 0}
    IN  IF starts = {} THEN SubSeq(m, i, Len(m))
        ELSE LET j == SetMin(starts)
             IN  SubSeq(m, i, j - 1) \o repl
                     \o ReSubFrom(pattern, repl, m, j + MatchLen(pattern, m, j))

\* Lines 57-61: the placeholder substitutions, whitespace collapse and strip.
NormalizeText(msg) ==
    LET m1 == ReSubFrom("GUID", <<"{", "G", "U", "I", "D", "}">>, msg, 1)
        m2 == ReSubFrom("ID", <<"{", "I", "D", "}">>, m1, 1)
        m3 == ReSubFrom("NUM", <<"{", "N", "U", "M", "}">>, m2, 1)
    IN  Strip(ReSubFrom("WS", <<" ">>, m3, 1))

\* Line 73: the fallback family.
Truncate(m) ==
    IF Len(m) > FamilyMaxLen THEN SubSeq(m, 1, FamilyMaxLen) \o <<Ellipsis>> ELSE m

\* ClassifyText with a fault: the TTLStreamReaper rule is tried first.
ClassifyTextTtlFirst(m) ==
    IF Contains(m, TrigTtl) THEN LabelTtl
    ELSE IF Contains(m, TrigWsiLogin) \/ Contains(m, TrigWsi) THEN LabelWsi
    ELSE IF \/ Contains(m, TrigCheckName)
            \/ Contains(m, TrigNotUnique)
            \/ Contains(m, TrigFnrce0043e) THEN LabelNameCollision
    ELSE IF Contains(m, TrigGetContent) THEN LabelGetContent
    ELSE IF Contains(m, TrigFnrce0066e) \/ Contains(m, TrigUnexpected) THEN LabelUnexpected
    ELSE Truncate(m)

\* Lines 63-73: the chain of substring rules over the normalized text m.
ClassifyText(m) ==
    IF Contains(m, TrigWsiLogin) \/ Contains(m, TrigWsi) THEN LabelWsi
    ELSE IF \/ Contains(m, TrigCheckName)
            \/ Contains(m, TrigNotUnique)
            \/ Contains(m, TrigFnrce0043e) THEN LabelNameCollision
    ELSE IF Contains(m, TrigGetContent) THEN LabelGetContent
    ELSE IF Contains(m, TrigFnrce0066e) \/ Contains(m, TrigUnexpected) THEN LabelUnexpected
    ELSE IF Contains(m, TrigTtl) THEN LabelTtl
    ELSE Truncate(m)

normalize_message(msg) == ClassifyText(NormalizeText(msg))

-----------------------------------------------------------------------------
(* Decimal numbers and letter case. *)

DigitSeq == <<"0", "1", "2", "3", "4", "5", "6", "7", "8", "9">>

LowerSeq ==
    <<"a", "b", "c", "d", "e", "f", "g", "h", "i", "j", "k", "l", "m",
      "n", "o", "p", "q", "r", "s", "t", "u", "v", "w", "x", "y", "z">>

UpperSeq ==
    <<"A", "B", "C", "D", "E", "F", "G", "H", "I", "J", "K", "L", "M",
      "N", "O", "P", "Q", "R", "S", "T", "U", "V", "W", "X", "Y", "Z">>

\* int() of a run of decimal digits
RECURSIVE ParseInt(_)
ParseInt(ds) ==
    IF ds = <<>> THEN 0
    ELSE 10 * ParseInt(SubSeq(ds, 1, Len(ds) - 1)) + (CHOOSE i \in 1..10 : DigitSeq[i] = ds[Len(ds)]) - 1

\* n in decimal, zero-padded to at least w digits (strftime %Y, %m, %d, %H)
RECURSIVE ZeroPad(_, _)
ZeroPad(n, w) ==
    IF w <= 1 /\ n < 10 THEN <<DigitSeq[n + 1]>>
    ELSE ZeroPad(n \div 10, w - 1) \o <<DigitSeq[(n % 10) + 1]>>

\* str.upper(), str.lower()
Upper(s) ==
    [i \in 1..Len(s) |->
        IF s[i] \in LowerLetters THEN UpperSeq[CHOOSE k \in 1..26 : LowerSeq[k] = s[i]]
        ELSE s[i]]

Lower(s) ==
    [i \in 1..Len(s) |->
        IF s[i] \in UpperLetters THEN LowerSeq[CHOOSE k \in 1..26 : UpperSeq[k] = s[i]]
        ELSE s[i]]

-----------------------------------------------------------------------------
(* datetime and timedelta.  A datetime is the record of its fields; a       *)
(* timedelta built from whole weeks, days, hours, minutes and seconds is    *)
(* its number of seconds.                                                   *)

DaysInMonth(y, m) ==
    IF m = 2 THEN (IF (y % 4 = 0) /\ ((y % 100 # 0) \/ (y % 400 = 0)) THEN 29 ELSE 28)
    ELSE IF m \in {4, 6, 9, 11} THEN 30 ELSE 31

RECURSIVE DaysBeforeMonth(_, _)
DaysBeforeMonth(y, m) ==
    IF m = 1 THEN 0 ELSE DaysBeforeMonth(y, m - 1) + DaysInMonth(y, m - 1)

\* date.toordinal(): 0001-01-01 is day 1
ToOrdinal(y, m, d) ==
    LET p == y - 1
    IN  p * 365 + (p \div 4) - (p \div 100) + (p \div 400) + DaysBeforeMonth(y, m) + d

\* The fields datetime() accepts.
ValidDate(y, m, d) ==
    /\ y >= 1 /\ y <= 9999
    /\ m >= 1 /\ m <= 12
    /\ d >= 1 /\ d <= DaysInMonth(y, m)

\* date.fromordinal()
FromOrdinal(n) ==
    LET y == CHOOSE yy \in ((n \div 366) + 1)..((n \div 365) + 1) :
                 ToOrdinal(yy, 1, 1) <= n /\ n < ToOrdinal(yy + 1, 1, 1)
        m == CHOOSE mm \in 1..12 :
                 /\ ToOrdinal(y, mm, 1) <= n
                 /\ n < ToOrdinal(y, mm, 1) + DaysInMonth(y, mm)
    IN  [year |-> y, month |-> m, day |-> n - ToOrdinal(y, m, 1) + 1]

DateTime(y, mo, d, h, mi, s, us) ==
    [year |-> y, month |-> mo, day |-> d, hour |-> h, minute |-> mi, second |-> s,
     microsecond |-> us]

DtKey(dt) == <<dt.year, dt.month, dt.day, dt.hour, dt.minute, dt.second, dt.microsecond>>

RECURSIVE LexLess(_, _)
LexLess(a, b) ==
    IF a = <<>> \/ b = <<>> THEN a = <<>> /\ b # <<>>
    ELSE IF Head(a) # Head(b) THEN Head(a) < Head(b)
    ELSE LexLess(Tail(a), Tail(b))

\* a < b, a > b on datetimes
DtLess(a, b) == LexLess(DtKey(a), DtKey(b))

DtGreater(a, b) == DtLess(b, a)

\* An optional value: None, or Some(x).
None == <<>>

Some(x) == <<x>>

Get(o) == o[1]

\* dt + timedelta(seconds=secs), secs of either sign; None stands for the OverflowError
\* of a result outside the years 1..9999.
DtAddSeconds(dt, secs) ==
    LET t == dt.hour * 3600 + dt.minute * 60 + dt.second + secs
        n == ToOrdinal(dt.year, dt.month, dt.day) + (t \div 86400)
        r == t % 86400
        ymd == FromOrdinal(n)
    IN  IF n < 1 \/ n > ToOrdinal(9999, 12, 31) THEN None
        ELSE Some(DateTime(ymd.year, ymd.month, ymd.day,
                           r \div 3600, (r % 3600) \div 60, r % 60, dt.microsecond))

\* dt.strftime("%Y-%m-%d") and dt.strftime("%Y-%m-%d %H:00")
StrftimeDay(dt) ==
    ZeroPad(dt.year, 4) \o <<"-">> \o ZeroPad(dt.month, 2) \o <<"-">> \o ZeroPad(dt.day, 2)

StrftimeHour(dt) == StrftimeDay(dt) \o <<" ">> \o ZeroPad(dt.hour, 2) \o <<":", "0", "0">>

\* The text has the shape \d{4}-\d{2}-\d{2}T\d{2}:\d{2}:\d{2}\.\d{3} from position 1 on.
TsShape(s) ==
    /\ Len(s) >= 23
    /\ \A i \in {1, 2, 3, 4, 6, 7, 9, 10, 12, 13, 15, 16, 18, 19, 21, 22, 23} : s[i] \in Digits
    /\ s[5] = "-" /\ s[8] = "-" /\ s[11] = "T"
    /\ s[14] = ":" /\ s[17] = ":" /\ s[20] = "."

\* datetime.strptime(ts_str, "%Y-%m-%dT%H:%M:%S.%f") for a text of that shape: the
\* datetime, or None (a ValueError) when the fields are no date or time of day.
Strptime(s) ==
    LET y == ParseInt(SubSeq(s, 1, 4))
        mo == ParseInt(SubSeq(s, 6, 7))
        d == ParseInt(SubSeq(s, 9, 10))
        h == ParseInt(SubSeq(s, 12, 13))
        mi == ParseInt(SubSeq(s, 15, 16))
        sec == ParseInt(SubSeq(s, 18, 19))
        ms == ParseInt(SubSeq(s, 21, 23))
    IN  IF ~TsShape(s) \/ Len(s) # 23 THEN None
        ELSE IF ValidDate(y, mo, d) /\ h <= 23 /\ mi <= 59 /\ sec <= 59
             THEN Some(DateTime(y, mo, d, h, mi, sec, ms * 1000))
             ELSE None

-----------------------------------------------------------------------------
(* LOG_LINE_RE.match(line).  Each \s+ and \S+ of the pattern is followed by *)
(* a part that cannot start with a character of its own class, so the       *)
(* greedy match is the only one and the groups are found in one pass.       *)

\* (.*)$ from position p: every character but a newline, up to the end of the line or
\* to a newline that ends it; -1 when the rest of the line does not match.
RestEnd(line, p) ==
    LET n == RunLen(Alphabet \ {"\n"}, line, p)
    IN  IF p + n > Len(line) \/ p + n = Len(line) THEN p + n ELSE -1

NoMatch == [matched |-> FALSE]

\* <class>+ at position p: the position behind the greedy match, 0 when there is no
\* match or p is 0 already.
SkipClass(class, line, p) ==
    IF p = 0 \/ RunLen(class, line, p) = 0 THEN 0 ELSE p + RunLen(class, line, p)

SkipSpaces(line, p) == SkipClass(SpaceChars, line, p)

SkipToken(line, p) == SkipClass(Alphabet \ SpaceChars, line, p)

SkipDash(line, p) == IF p # 0 /\ DashAt(line, p) THEN p + 1 ELSE 0

\* \s+\S+\s+\S+\s+\S+\s+-\s+ behind the timestamp: the position of the level, or 0.
LevelStart(line) ==
    SkipSpaces(line, SkipDash(line, SkipSpaces(line, SkipToken(line,
        SkipSpaces(line, SkipToken(line, SkipSpaces(line, SkipToken(line,
            SkipSpaces(line, 24)))))))))

MatchGroups(line, p, w, q) ==
    [matched |-> TRUE,
     ts |-> SubSeq(line, 1, 23),
     level |-> SubSeq(line, p, p + w - 1),
     msg |-> SubSeq(line, q, RestEnd(line, q) - 1)]

\* \s+(?P<msg>.*)$ behind the level of w characters at p: \s+ takes the s whitespace
\* characters and gives them back while (.*)$ fails behind it.
MatchMessage(line, p, w, s) ==
    LET starts == {q \in (p + w + 1)..(p + w + s) : RestEnd(line, q) >= 0}
    IN  IF starts = {} THEN NoMatch ELSE MatchGroups(line, p, w, SetMax(starts))

\* (?P<level>\w+) at p, 0 for no position.
MatchLevel(line, p) ==
    IF p = 0 \/ RunLen(WordChars, line, p) = 0 THEN NoMatch
    ELSE MatchMessage(line, p, RunLen(WordChars, line, p),
                      RunLen(SpaceChars, line, p + RunLen(WordChars, line, p)))

LogLineMatch(line) ==
    IF ~TsShape(line) THEN NoMatch ELSE MatchLevel(line, LevelStart(line))

-----------------------------------------------------------------------------
(* String order (Python compares str by code point). *)

AsciiOrder ==
    <<"\t", "\n", "\f", "\r", " ", "(", ")", "-", ".", "/",
      "0", "1", "2", "3", "4", "5", "6", "7", "8", "9", ":",
      "A", "B", "C", "D", "E", "F", "G", "H", "I", "J", "K", "L", "M",
      "N", "O", "P", "Q", "R", "S", "T", "U", "V", "W", "X", "Y", "Z",
      "[", "]", "_",
      "a", "b", "c", "d", "e", "f", "g", "h", "i", "j", "k", "l", "m",
      "n", "o", "p", "q", "r", "s", "t", "u", "v", "w", "x", "y", "z",
      "{", "}", EnDash, Ellipsis>>

CharCode ==
    [c \in {AsciiOrder[i] : i \in 1..Len(AsciiOrder)} |->
        CHOOSE i \in 1..Len(AsciiOrder) : AsciiOrder[i] = c]

\* a < b on str
StrLess(a, b) ==
    LexLess([i \in 1..Len(a) |-> CharCode[a[i]]], [i \in 1..Len(b) |-> CharCode[b[i]]])

\* sorted(xs, key): a stable sort, KeyLess the order of the keys.  Each element is put
\* behind the elements already placed that are not greater than it.
\* BeforeOrEqual is Before with a fault: an equal count goes first, which is not stable.
\* The two orders main sorts by: line 647 (count, descending) and line 652 (timestamp).
BeforeOrEqual(order, a, b) ==
    IF order = "count_reverse" THEN a.count >= b.count
    ELSE StrLess(a.timestamp, b.timestamp)

Before(order, a, b) ==
    IF order = "count_reverse" THEN a.count > b.count
    ELSE StrLess(a.timestamp, b.timestamp)

RECURSIVE InsertStable(_, _, _)
InsertStable(order, x, sorted) ==
    IF sorted = <<>> THEN <<x>>
    ELSE IF Before(order, x, Head(sorted)) THEN <<x>> \o sorted
    ELSE <<Head(sorted)>> \o InsertStable(order, x, Tail(sorted))

RECURSIVE StableSort(_, _)
StableSort(order, xs) ==
    IF xs = <<>> THEN <<>>
    ELSE InsertStable(order, xs[Len(xs)], StableSort(order, SubSeq(xs, 1, Len(xs) - 1)))

\* SortedStrs with a fault: the paths in descending order.
RECURSIVE SortedStrsDescending(_)
SortedStrsDescending(S) ==
    IF S = {} THEN <<>>
    ELSE LET greatest == CHOOSE x \in S : \A y \in S \ {x} : StrLess(y, x)
         IN  <<greatest>> \o SortedStrsDescending(S \ {greatest})

\* sorted(S) of a set of str
RECURSIVE SortedStrs(_)
SortedStrs(S) ==
    IF S = {} THEN <<>>
    ELSE LET least == CHOOSE x \in S : \A y \in S \ {x} : StrLess(x, y)
         IN  <<least>> \o SortedStrs(S \ {least})

\* os.path.basename(fp)
RECURSIVE Basename(_)
Basename(fp) ==
    IF \E i \in 1..Len(fp) : fp[i] = "/" THEN Basename(Tail(fp)) ELSE fp

-----------------------------------------------------------------------------
(* parse_relative_delta *)

SecondsOfUnit(u) ==
    IF u = "w" THEN 7 * 86400
    ELSE IF u = "d" THEN 86400
    ELSE IF u = "h" THEN 3600
    ELSE IF u = "m" THEN 60
    ELSE 1

\* ("now", "0", "0h", "0m", "0s")
ZeroLiterals == {<<"n", "o", "w">>, <<"0">>, <<"0", "h">>, <<"0", "m">>, <<"0", "s">>}

\* (\d+)\s*([wdhms]) at i: the length of the match, 0 when there is none.
DeltaTokenLen(e, i) ==
    LET d == RunLen(Digits, e, i)
        s == RunLen(SpaceChars, e, i + d)
        u == i + d + s
    IN  IF d >= 1 /\ u <= Len(e) /\ e[u] \in {"w", "d", "h", "m", "s"} THEN d + s + 1 ELSE 0

\* DeltaScan with a fault: only the first token counts (re.match-like, no loop).
RECURSIVE DeltaScanFirstOnly(_, _)
DeltaScanFirstOnly(e, i) ==
    IF i > Len(e) THEN [found |-> FALSE, total |-> 0]
    ELSE LET n == DeltaTokenLen(e, i)
         IN  IF n = 0 THEN DeltaScanFirstOnly(e, i + 1)
             ELSE LET val == ParseInt(SubSeq(e, i, i + RunLen(Digits, e, i) - 1))
                  IN  [found |-> TRUE, total |-> val * SecondsOfUnit(e[i + n - 1])]

\* DeltaScan with a fault: a token behind a minus sign counts negative (-?\d+).
RECURSIVE DeltaScanSigned(_, _)
DeltaScanSigned(e, i) ==
    IF i > Len(e) THEN [found |-> FALSE, total |-> 0]
    ELSE LET n == DeltaTokenLen(e, i)
         IN  IF n = 0 THEN DeltaScanSigned(e, i + 1)
             ELSE LET val == ParseInt(SubSeq(e, i, i + RunLen(Digits, e, i) - 1))
                      sign == IF i > 1 /\ e[i - 1] = "-" THEN 0 - 1 ELSE 1
                      rest == DeltaScanSigned(e, i + n)
                  IN  [found |-> TRUE,
                       total |-> sign * val * SecondsOfUnit(e[i + n - 1]) + rest.total]

\* The loop of lines 90-103 from position i on: [found, total].
RECURSIVE DeltaScan(_, _)
DeltaScan(e, i) ==
    IF i > Len(e) THEN [found |-> FALSE, total |-> 0]
    ELSE LET n == DeltaTokenLen(e, i)
         IN  IF n = 0 THEN DeltaScan(e, i + 1)
             ELSE LET val == ParseInt(SubSeq(e, i, i + RunLen(Digits, e, i) - 1))
                      rest == DeltaScan(e, i + n)
                  IN  [found |-> TRUE,
                       total |-> val * SecondsOfUnit(e[i + n - 1]) + rest.total]

\* expr is an optional str.  The result is [kind |-> "None"] for None, a timedelta
\* given by its seconds, or [kind |-> "ValueError"] when no token is found.
parse_relative_delta(expr) ==
    IF expr = None THEN [kind |-> "None"]
    ELSE LET e == Lower(Strip(Get(expr)))
             r == DeltaScan(e, 1)
         IN  IF e \in ZeroLiterals THEN [kind |-> "timedelta", seconds |-> 0]
             ELSE IF ~r.found THEN [kind |-> "ValueError"]
             ELSE [kind |-> "timedelta", seconds |-> r.total]

-----------------------------------------------------------------------------
(* Log lines, files and arguments the runs are given. *)

\* A file holds bytes; BadByte is a byte that is no part of any UTF-8 sequence (0xFF).
BadByte == "BAD_BYTE"

\* Line 120, encoding="utf-8", errors="ignore": the text of the bytes of a line, the
\* bytes that cannot be decoded left out.
RECURSIVE Decode(_)
Decode(bytes) ==
    IF bytes = <<>> THEN <<>>
    ELSE (IF Head(bytes) = BadByte THEN <<>> ELSE <<Head(bytes)>>) \o Decode(Tail(bytes))

LineErrAtSince ==
    <<"2", "0", "2", "4", "-", "0", "1", "-", "1", "5", "T", "1", "0", ":", "3", "0", ":", "0",
      "0", ".", "1", "2", "3", " ", "h", " ", "c", " ", "t", " ", "-", " ", "E", "R", "R", "O",
      "R", " ", "E", "_", "N", "O", "T", "_", "U", "N", "I", "Q", "U", "E", "\n">>

LineWarnAtUntil ==
    <<"2", "0", "2", "4", "-", "0", "1", "-", "1", "6", "T", "1", "0", ":", "3", "0", ":", "0",
      "0", ".", "1", "2", "3", " ", "h", " ", "c", " ", "t", " ", "-", " ", "w", "a", BadByte,
      "r", "n", " ", " ", "x", " ", "\n">>

LineBeforeSince ==
    <<"2", "0", "2", "4", "-", "0", "1", "-", "1", "5", "T", "1", "0", ":", "3", "0", ":", "0",
      "0", ".", "1", "2", "2", " ", "h", " ", "c", " ", "t", " ", "-", " ", "E", "R", "R", "O",
      "R", " ", "x", "\n">>

LineAfterUntil ==
    <<"2", "0", "2", "4", "-", "0", "1", "-", "1", "6", "T", "1", "0", ":", "3", "0", ":", "0",
      "0", ".", "1", "2", "4", " ", "h", " ", "c", " ", "t", " ", "-", " ", "W", "A", "R", "N",
      " ", "x", "\n">>

LineInfo ==
    <<"2", "0", "2", "4", "-", "0", "1", "-", "1", "6", "T", "0", "9", ":", "0", "0", ":", "0",
      "0", ".", "0", "0", "0", " ", "h", " ", "c", " ", "t", " ", "-", " ", "I", "N", "F", "O",
      " ", "x", "\n">>

LineBadDate ==
    <<"2", "0", "2", "4", "-", "0", "2", "-", "3", "0", "T", "0", "9", ":", "0", "0", ":", "0",
      "0", ".", "0", "0", "0", " ", "h", " ", "c", " ", "t", " ", "-", " ", "E", "R", "R", "O",
      "R", " ", "x", "\n">>

LineNoDash ==
    <<"2", "0", "2", "4", "-", "0", "1", "-", "1", "6", "T", "0", "9", ":", "0", "0", ":", "0",
      "0", ".", "0", "0", "0", " ", "h", " ", "c", " ", "t", " ", "E", "R", "R", "O", "R", " ",
      "x", "\n">>

LineShortMillis ==
    <<"2", "0", "2", "4", "-", "0", "1", "-", "1", "6", "T", "0", "9", ":", "0", "0", ":", "0",
      "0", ".", "0", "0", " ", "h", " ", "c", " ", "t", " ", "-", " ", "E", "R", "R", "O", "R",
      " ", "x", "\n">>

LineNoMessage ==
    <<"2", "0", "2", "4", "-", "0", "1", "-", "1", "6", "T", "0", "9", ":", "0", "0", ":", "0",
      "0", ".", "0", "0", "0", " ", "h", " ", "c", " ", "t", " ", "-", " ", "E", "R", "R", "O",
      "R", "\n">>

LineWsiLate ==
    <<"2", "0", "2", "4", "-", "0", "1", "-", "1", "6", "T", "0", "9", ":", "0", "0", ":", "0",
      "0", ".", "0", "0", "0", " ", "h", " ", "c", " ", "t", " ", "-", " ", "E", "R", "R", "O",
      "R", " ", "W", "S", "I", "A", "u", "t", "h", "e", "n", "t", "i", "c", "a", "t", "o", "r",
      "I", "m", "p", "l", " ", "a", "\n">>

LineWsiEarly ==
    <<"2", "0", "2", "4", "-", "0", "1", "-", "1", "5", "T", "1", "0", ":", "3", "0", ":", "0",
      "0", ".", "1", "2", "3", " ", "h", " ", "c", " ", "t", " ", "-", " ", "E", "R", "R", "O",
      "R", " ", "W", "S", "I", "A", "u", "t", "h", "e", "n", "t", "i", "c", "a", "t", "o", "r",
      "I", "m", "p", "l", " ", "b", "\n">>

LineNotUnique ==
    <<"2", "0", "2", "4", "-", "0", "1", "-", "1", "6", "T", "0", "8", ":", "0", "0", ":", "0",
      "0", ".", "0", "0", "0", " ", "h", " ", "c", " ", "t", " ", "-", " ", "E", "R", "R", "O",
      "R", " ", "E", "_", "N", "O", "T", "_", "U", "N", "I", "Q", "U", "E", "\n">>

\* The lines of the files given to a call of parse_logs, and those of the whole runs.
ParseLines ==
    {LineErrAtSince, LineWarnAtUntil, LineBeforeSince, LineAfterUntil, LineInfo,
     LineBadDate, LineNoDash, LineShortMillis, LineNoMessage}

MainLines == {LineWsiLate, LineWsiEarly, LineNotUnique}

\* The paths glob can return: two directories, "a/t" before "b/s" as paths.
Paths == {<<"a", "/", "t">>, <<"b", "/", "s">>}

\* The contents of a directory tree: the files the pattern matches, at most n lines in all.
RECURSIVE TotalLines(_, _)
TotalLines(d, P) ==
    IF P = {} THEN 0
    ELSE LET p == CHOOSE q \in P : TRUE IN Len(d[p]) + TotalLines(d, P \ {p})

Disks(Lines, n) ==
    {d \in UNION {[P -> UNION {[1..k -> Lines] : k \in 0..n}] : P \in SUBSET Paths} :
        TotalLines(d, DOMAIN d) <= n}

\* datetime.now()
Nows == {DateTime(2024, 1, 16, 10, 30, 0, 123000)}

-----------------------------------------------------------------------------
(* parse_logs, lines 121-143: one line of the file fp. *)

LevelError ==
    <<"E", "R", "R", "O", "R">>
LevelWarn ==
    <<"W", "A", "R", "N">>

Row(ts_str, level, msg, fp) ==
    [timestamp |-> ts_str, level |-> level, message |-> Strip(msg),
     source_file |-> Basename(fp)]

\* ParseLine with a fault: the lower bound of the window is exclusive (ts <= since_dt).
ParseLineSinceExclusive(line, fp, since, until) ==
    LET m == LogLineMatch(line)
    IN  IF ~m.matched THEN None
        ELSE LET level == Upper(m.level)
                 ts == Strptime(m.ts)
             IN  IF level \notin {LevelError, LevelWarn} THEN None
                 ELSE IF ts = None THEN None
                 ELSE IF since # None /\ ~DtGreater(Get(ts), Get(since)) THEN None
                 ELSE IF until # None /\ DtGreater(Get(ts), Get(until)) THEN None
                 ELSE Some(Row(m.ts, level, m.msg, fp))

\* Some(row) when the line is appended to rows, None when the loop continues.
ParseLine(line, fp, since, until) ==
    LET m == LogLineMatch(line)
    IN  IF ~m.matched THEN None
        ELSE LET level == Upper(m.level)
                 ts == Strptime(m.ts)
             IN  IF level \notin {LevelError, LevelWarn} THEN None
                 ELSE IF ts = None THEN None
                 ELSE IF since # None /\ DtLess(Get(ts), Get(since)) THEN None
                 ELSE IF until # None /\ DtGreater(Get(ts), Get(until)) THEN None
                 ELSE Some(Row(m.ts, level, m.msg, fp))

-----------------------------------------------------------------------------
(* main, lines 642-682: grouping, summary, examples and time series. *)

\* families[normalize_message(r["message"])].append(r); a dict keeps insertion order.
RECURSIVE GroupRows(_, _)
GroupRows(rs, fams) ==
    IF rs = <<>> THEN fams
    ELSE LET r == Head(rs)
             fam == normalize_message(r.message)
             at == {i \in 1..Len(fams) : fams[i].family = fam}
         IN  GroupRows(Tail(rs),
                 IF at = {} THEN Append(fams, [family |-> fam, items |-> <<r>>])
                 ELSE LET i == CHOOSE j \in at : TRUE
                      IN  [fams EXCEPT ![i].items = Append(@, r)])

\* summary.sort(key=lambda x: x["count"], reverse=True): descending, equal counts in order
Summary(fams) ==
    StableSort("count_reverse",
               [i \in 1..Len(fams) |-> [family |-> fams[i].family, count |-> Len(fams[i].items)]])

Max2(a, b) == IF a >= b THEN a ELSE b

Min2(a, b) == IF a <= b THEN a ELSE b

\* s[:k]
Take(s, k) == SubSeq(s, 1, Min2(Max2(k, 0), Len(s)))

ExampleRow(fam, ex) ==
    [family |-> fam, timestamp |-> ex.timestamp, source_file |-> ex.source_file,
     message |-> ex.message]

\* FamilyExamples with a fault: [: args.examples], without the least count of one.
FamilyExamplesNoLeast(f, examples) ==
    LET chosen == Take(StableSort("timestamp", f.items), examples)
    IN  [i \in 1..Len(chosen) |-> ExampleRow(f.family, chosen[i])]

\* sorted(items, key=lambda rr: rr["timestamp"])[: max(1, args.examples)] of one family
FamilyExamples(f, examples) ==
    LET chosen == Take(StableSort("timestamp", f.items), Max2(1, examples))
    IN  [i \in 1..Len(chosen) |-> ExampleRow(f.family, chosen[i])]

RECURSIVE ExampleRows(_, _)
ExampleRows(fams, examples) ==
    IF fams = <<>> THEN <<>>
    ELSE FamilyExamples(Head(fams), examples) \o ExampleRows(Tail(fams), examples)

\* Counter(): c[k] += 1
EmptyCounter == [k \in {} |-> 0]

\* Incr with a fault: c[k] = 1 in place of c[k] += 1.
IncrAssigns(c, k) == IF k \in DOMAIN c THEN [c EXCEPT ![k] = 1] ELSE c @@ (k :> 1)

Incr(c, k) == IF k \in DOMAIN c THEN [c EXCEPT ![k] = @ + 1] ELSE c @@ (k :> 1)

\* defaultdict(Counter): fc[fam][k] += 1
IncrFamily(fc, fam, k) ==
    IF fam \in DOMAIN fc THEN [fc EXCEPT ![fam] = Incr(@, k)]
    ELSE fc @@ (fam :> Incr(EmptyCounter, k))

\* Lines 671-682 for one record r of family fam; s holds the four counters.
CountRow(s, fam, r) ==
    LET dt == Strptime(r.timestamp)
    IN  IF dt = None THEN s
        ELSE LET d == StrftimeDay(Get(dt))
                 h == StrftimeHour(Get(dt))
             IN  [daily |-> Incr(s.daily, d),
                  hourly |-> Incr(s.hourly, h),
                  fam_daily |-> IncrFamily(s.fam_daily, fam, d),
                  fam_hourly |-> IncrFamily(s.fam_hourly, fam, h)]

RECURSIVE CountItems(_, _, _)
CountItems(s, fam, items) ==
    IF items = <<>> THEN s ELSE CountItems(CountRow(s, fam, Head(items)), fam, Tail(items))

RECURSIVE CountFamilies(_, _)
CountFamilies(s, fams) ==
    IF fams = <<>> THEN s
    ELSE CountFamilies(CountItems(s, Head(fams).family, Head(fams).items), Tail(fams))

NoSeries ==
    [daily |-> EmptyCounter, hourly |-> EmptyCounter,
     fam_daily |-> EmptyCounter, fam_hourly |-> EmptyCounter]

-----------------------------------------------------------------------------
(* Messages given to normalize_message: concatenations of at most MaxPieces pieces. *)

GuidText ==
    <<"a", "b", "c", "1", "2", "3", "4", "5", "-", "1", "1", "1", "1", "-", "2", "2", "2", "2",
      "-", "3", "3", "3", "3", "-", "4", "4", "4", "4", "5", "5", "5", "5", "6", "6", "6", "6">>

LongText ==
    <<"l", "o", "r", "e", "m", " ", "i", "p", "s", "u", "m", " ", "d", "o", "l", "o", "r", " ",
      "s", "i", "t", " ", "a", "m", "e", "t", " ", "c", "o", "n", "s", "e", "c", "t", "e", "t",
      "u", "r", " ", "a", "d", "i", "p", "i", "s", "c", "i", "n", "g", " ", "e", "l", "i", "t",
      " ", "s", "e", "d", " ", "d", "o", " ", "e", "i", "u", "s", "m", "o", "d", " ", "t", "e",
      "m", "p", "o", "r", " ">>

\* 64 characters: behind LongText its six digits are characters 135 to 140.
CutText ==
    <<"u", "t", " ", "l", "a", "b", "o", "r", "e", " ", "e", "t", " ", "d", "o", "l", "o", "r",
      "e", " ", "m", "a", "g", "n", "a", " ", "a", "l", "i", "q", "u", "a", " ", "u", "t", " ",
      "e", "n", "i", "m", " ", "a", "d", " ", "m", "i", "n", "i", "m", " ", "v", "e", "n", "i",
      "a", "m", " ", "1", "2", "3", "4", "5", "6", "x">>

Pieces ==
    {TrigWsi, TrigCheckName, TrigNotUnique, TrigFnrce0043e, TrigGetContent,
     TrigFnrce0066e, TrigUnexpected, TrigTtl, GuidText, LongText, CutText,
     <<" ">>, <<"x">>, <<":">>, <<"7">>, <<"1", "2", "3", "4", "5", "6">>}

RECURSIVE Concat(_)
Concat(ss) == IF ss = <<>> THEN <<>> ELSE Head(ss) \o Concat(Tail(ss))

Messages == {Concat(ps) : ps \in UNION {[1..n -> Pieces] : n \in 0..MaxPieces}}

-----------------------------------------------------------------------------
(* normalize_message as a state machine: the call, lines 57-61, lines 63-73. *)

NmIdle ==
    /\ nm_pc = "idle"
    /\ nm_msg = <<>>
    /\ nm_text = <<>>
    /\ nm_ret = <<>>

NmSubstitute ==
    /\ nm_pc = "call"
    /\ nm_text' = NormalizeText(nm_msg)
    /\ nm_pc' = "subst"
    /\ UNCHANGED <<nm_msg, nm_ret>>
    /\ UNCHANGED runVars

NmClassify ==
    /\ nm_pc = "subst"
    /\ nm_ret' = ClassifyText(nm_text)
    /\ nm_pc' = "ret"
    /\ UNCHANGED <<nm_msg, nm_text>>
    /\ UNCHANGED runVars

-----------------------------------------------------------------------------
(* The run of main as a state machine. *)

\* The directories and output files of a run, as paths.
KubeLocalPath ==
    <<"k", "u", "b", "e", "_", "l", "o", "c", "a", "l", "_", "p", "a", "t", "h">>

OutDir ==
    <<"o", "u", "t", "d", "i", "r">>

LogDir ==
    <<"l", "o", "g", "d", "i", "r">>

RawErrorsCsv ==
    <<"r", "a", "w", "_", "e", "r", "r", "o", "r", "s", ".", "c", "s", "v">>

SummaryCsv ==
    <<"s", "u", "m", "m", "a", "r", "y", ".", "c", "s", "v">>

ExamplesCsv ==
    <<"e", "x", "a", "m", "p", "l", "e", "s", ".", "c", "s", "v">>

OverallDailyCsv ==
    <<"t", "i", "m", "e", "s", "e", "r", "i", "e", "s", "_", "o", "v", "e", "r", "a", "l", "l",
      "_", "d", "a", "i", "l", "y", ".", "c", "s", "v">>

OverallHourlyCsv ==
    <<"t", "i", "m", "e", "s", "e", "r", "i", "e", "s", "_", "o", "v", "e", "r", "a", "l", "l",
      "_", "h", "o", "u", "r", "l", "y", ".", "c", "s", "v">>

FamilyDailyCsv ==
    <<"t", "i", "m", "e", "s", "e", "r", "i", "e", "s", "_", "f", "a", "m", "i", "l", "y", "_",
      "d", "a", "i", "l", "y", ".", "c", "s", "v">>

FamilyHourlyCsv ==
    <<"t", "i", "m", "e", "s", "e", "r", "i", "e", "s", "_", "f", "a", "m", "i", "l", "y", "_",
      "h", "o", "u", "r", "l", "y", ".", "c", "s", "v">>

SummaryMarkdown ==
    <<"s", "u", "m", "m", "a", "r", "y", "_", "m", "a", "r", "k", "d", "o", "w", "n", ".", "m",
      "d">>

OutputFiles ==
    {RawErrorsCsv, SummaryCsv, ExamplesCsv, OverallDailyCsv, OverallHourlyCsv,
     FamilyDailyCsv, FamilyHourlyCsv, SummaryMarkdown}

\* An operation on the file system or a process that was run; target is a path.
Event(op, target) == [op |-> op, target |-> target]

NoException == [type |-> "none", reason |-> "none"]

Exception(type, reason) == [type |-> type, reason |-> reason]

Closed == <<"closed">>

\* The state of a run before line 595, with the given arguments.
RunStart(a) ==
    /\ pc = "kube_check"
    /\ args = a
    /\ exc = NoException
    /\ io = <<>>
    /\ disk = EmptyCounter
    /\ files = <<>>
    /\ fi = 0
    /\ fh = Closed
    /\ li = 0
    /\ rows = <<>>
    /\ now = None
    /\ since_dt = None
    /\ until_dt = None
    /\ families = <<>>
    /\ summary = <<>>
    /\ example_rows = <<>>
    /\ series = NoSeries

Raise(type, reason) ==
    /\ pc' = "aborted"
    /\ exc' = Exception(type, reason)

\* Lines 596-608 and 624-625: the check of the companion options of --kube-sync.
KubeCheck ==
    /\ pc = "kube_check"
    /\ IF args.kube_sync
       THEN IF args.kube_complete
            THEN pc' = "kube_sync" /\ exc' = exc
            ELSE Raise("SystemExit", "kube_sync_requires")
       ELSE pc' = "makedirs" /\ exc' = exc
    /\ UNCHANGED <<args, io, disk, files, fi, fh, li, rows, now, since_dt, until_dt,
                   families, summary, example_rows, series>>
    /\ UNCHANGED nmVars

\* Lines 610-623: kube_sync_pattern_only copies the files, or fails (no running pod,
\* a kubectl error).
KubeSync ==
    /\ pc = "kube_sync"
    /\ io' = Append(io, Event("kube_sync", KubeLocalPath))
    /\ \E ok \in BOOLEAN :
          IF ok THEN pc' = "makedirs" /\ exc' = exc
          ELSE Raise("SystemExit", "kube_sync_failed")
    /\ UNCHANGED <<args, disk, files, fi, fh, li, rows, now, since_dt, until_dt,
                   families, summary, example_rows, series>>
    /\ UNCHANGED nmVars

\* Line 627: os.makedirs(args.outdir, exist_ok=True)
MakeOutdir ==
    /\ pc = "makedirs"
    /\ io' = Append(io, Event("makedirs", OutDir))
    /\ pc' = "window"
    /\ UNCHANGED <<args, exc, disk, files, fi, fh, li, rows, now, since_dt, until_dt,
                   families, summary, example_rows, series>>
    /\ UNCHANGED nmVars

\* Window with a fault: since is counted back from until_dt, not from now.
WindowSinceFromUntil(n, since_arg, until_arg) ==
    LET u == parse_relative_delta(until_arg)
        s == IF since_arg = None \/ since_arg = Some(<<>>) THEN [kind |-> "None"]
             ELSE parse_relative_delta(since_arg)
        until == DtAddSeconds(n, IF u.kind = "timedelta" THEN u.seconds ELSE 0)
        since == IF s.kind = "timedelta" /\ until # None
                 THEN DtAddSeconds(Get(until), 0 - s.seconds) ELSE None
    IN  IF u.kind = "ValueError" THEN [error |-> Exception("ValueError", "until")]
        ELSE IF until = None THEN [error |-> Exception("OverflowError", "until")]
        ELSE IF s.kind = "ValueError" THEN [error |-> Exception("ValueError", "since")]
        ELSE IF s.kind = "timedelta" /\ since = None
             THEN [error |-> Exception("OverflowError", "since")]
        ELSE IF since # None /\ DtGreater(Get(since), Get(until))
             THEN [error |-> Exception("SystemExit", "since_after_until")]
        ELSE [error |-> NoException, since |-> since, until |-> until]

\* until_dt and since_dt of lines 630-633 for the instant n: [error, since, until].
Window(n, since_arg, until_arg) ==
    LET u == parse_relative_delta(until_arg)
        \* args.since is used when it is truthy: neither None nor the empty string
        s == IF since_arg = None \/ since_arg = Some(<<>>) THEN [kind |-> "None"]
             ELSE parse_relative_delta(since_arg)
        until == DtAddSeconds(n, IF u.kind = "timedelta" THEN u.seconds ELSE 0)
        since == IF s.kind = "timedelta" THEN DtAddSeconds(n, 0 - s.seconds) ELSE None
    IN  IF u.kind = "ValueError" THEN [error |-> Exception("ValueError", "until")]
        ELSE IF until = None THEN [error |-> Exception("OverflowError", "until")]
        ELSE IF s.kind = "ValueError" THEN [error |-> Exception("ValueError", "since")]
        ELSE IF s.kind = "timedelta" /\ since = None
             THEN [error |-> Exception("OverflowError", "since")]
        ELSE IF since # None /\ DtGreater(Get(since), Get(until))
             THEN [error |-> Exception("SystemExit", "since_after_until")]
        ELSE [error |-> NoException, since |-> since, until |-> until]

\* Lines 629-635.
ResolveWindow ==
    /\ pc = "window"
    /\ \E n \in Nows :
          LET w == Window(n, args.since, args.until)
          IN  /\ now' = Some(n)
              /\ IF w.error = NoException
                 THEN /\ since_dt' = w.since
                      /\ until_dt' = w.until
                      /\ pc' = "parse_logs"
                      /\ exc' = exc
                 ELSE /\ Raise(w.error.type, w.error.reason)
                      /\ UNCHANGED <<since_dt, until_dt>>
    /\ UNCHANGED <<args, io, disk, files, fi, fh, li, rows,
                   families, summary, example_rows, series>>
    /\ UNCHANGED nmVars

\* Glob with a fault: raw_errors.csv is written, empty, before the check of line 114.
GlobWritesFirst(ds) ==
    /\ pc = "parse_logs"
    /\ \E d \in ds :
          /\ disk' = d
          /\ files' = SortedStrs(DOMAIN d)
          /\ IF DOMAIN d = {}
             THEN Raise("SystemExit", "no_log_files")
             ELSE pc' = "open" /\ exc' = exc
    /\ io' = io \o <<Event("write", RawErrorsCsv),
                     Event("glob", IF args.kube_sync THEN KubeLocalPath ELSE LogDir)>>
    /\ fi' = 1
    /\ rows' = <<>>
    /\ UNCHANGED <<args, fh, li, now, since_dt, until_dt,
                   families, summary, example_rows, series>>
    /\ UNCHANGED nmVars

\* Lines 113-117: the files the pattern matches, sorted; the directory holds one of ds.
Glob(ds) ==
    /\ pc = "parse_logs"
    /\ \E d \in ds :
          /\ disk' = d
          /\ files' = SortedStrs(DOMAIN d)
          /\ IF DOMAIN d = {}
             THEN Raise("SystemExit", "no_log_files")
             ELSE pc' = "open" /\ exc' = exc
    /\ io' = Append(io, Event("glob", IF args.kube_sync THEN KubeLocalPath ELSE LogDir))
    /\ fi' = 1
    /\ rows' = <<>>
    /\ UNCHANGED <<args, fh, li, now, since_dt, until_dt,
                   families, summary, example_rows, series>>
    /\ UNCHANGED nmVars

\* A file that glob has listed and parse_logs has not opened yet is rotated away.
Rotate ==
    /\ pc \in {"open", "read"}
    /\ \E j \in 1..Len(files) :
          /\ IF pc = "open" THEN j >= fi ELSE j > fi
          /\ files[j] \in DOMAIN disk
          /\ disk' = [p \in DOMAIN disk \ {files[j]} |-> disk[p]]
    /\ UNCHANGED <<pc, args, exc, io, files, fi, fh, li, rows, now, since_dt, until_dt,
                   families, summary, example_rows, series>>
    /\ UNCHANGED nmVars

\* OpenFile with a fault: FileNotFoundError is not caught and ends the run.
OpenFileUncaught ==
    /\ pc = "open"
    /\ fi <= Len(files)
    /\ IF files[fi] \in DOMAIN disk
       THEN /\ io' = Append(io, Event("open", files[fi]))
            /\ fh' = [i \in 1..Len(disk[files[fi]]) |-> Decode(disk[files[fi]][i])]
            /\ li' = 1
            /\ pc' = "read"
            /\ UNCHANGED <<fi, exc>>
       ELSE /\ io' = Append(io, Event("FileNotFoundError", files[fi]))
            /\ Raise("FileNotFoundError", "open")
            /\ UNCHANGED <<fi, fh, li>>
    /\ UNCHANGED <<args, disk, files, rows, now, since_dt, until_dt,
                   families, summary, example_rows, series>>
    /\ UNCHANGED nmVars

\* Lines 118-120 and 144-146: open the next file; FileNotFoundError skips it.
OpenFile ==
    /\ pc = "open"
    /\ fi <= Len(files)
    /\ IF files[fi] \in DOMAIN disk
       THEN /\ io' = Append(io, Event("open", files[fi]))
            /\ fh' = [i \in 1..Len(disk[files[fi]]) |-> Decode(disk[files[fi]][i])]
            /\ li' = 1
            /\ pc' = "read"
            /\ fi' = fi
       ELSE /\ io' = Append(io, Event("FileNotFoundError", files[fi]))
            /\ fi' = fi + 1
            /\ UNCHANGED <<fh, li, pc>>
    /\ UNCHANGED <<args, exc, disk, files, rows, now, since_dt, until_dt,
                   families, summary, example_rows, series>>
    /\ UNCHANGED nmVars

\* Lines 121-143: the next line of the open file.
ReadLine ==
    /\ pc = "read"
    /\ li <= Len(fh)
    /\ LET r == ParseLine(fh[li], files[fi], since_dt, until_dt)
       IN  rows' = IF r = None THEN rows ELSE Append(rows, Get(r))
    /\ li' = li + 1
    /\ UNCHANGED <<pc, args, exc, io, disk, files, fi, fh, now, since_dt, until_dt,
                   families, summary, example_rows, series>>
    /\ UNCHANGED nmVars

\* The end of the file: the with block closes it and the loop takes the next file.
EndOfFile ==
    /\ pc = "read"
    /\ li > Len(fh)
    /\ fh' = Closed
    /\ fi' = fi + 1
    /\ pc' = "open"
    /\ UNCHANGED <<args, exc, io, disk, files, li, rows, now, since_dt, until_dt,
                   families, summary, example_rows, series>>
    /\ UNCHANGED nmVars

\* Line 147: return rows.
ReturnRows ==
    /\ pc = "open"
    /\ fi > Len(files)
    /\ pc' = "write_raw"
    /\ UNCHANGED <<args, exc, io, disk, files, fi, fh, li, rows, now, since_dt, until_dt,
                   families, summary, example_rows, series>>
    /\ UNCHANGED nmVars

\* Lines 639-640.
WriteRaw ==
    /\ pc = "write_raw"
    /\ io' = Append(io, Event("write", RawErrorsCsv))
    /\ pc' = "summarize"
    /\ UNCHANGED <<args, exc, disk, files, fi, fh, li, rows, now, since_dt, until_dt,
                   families, summary, example_rows, series>>
    /\ UNCHANGED nmVars

\* Lines 642-648.
Summarize ==
    /\ pc = "summarize"
    /\ families' = GroupRows(rows, <<>>)
    /\ summary' = Summary(families')
    /\ io' = Append(io, Event("write", SummaryCsv))
    /\ pc' = "examples"
    /\ UNCHANGED <<args, exc, disk, files, fi, fh, li, rows, now, since_dt, until_dt,
                   example_rows, series>>
    /\ UNCHANGED nmVars

\* Lines 650-660.
Examples ==
    /\ pc = "examples"
    /\ example_rows' = ExampleRows(families, args.examples)
    /\ io' = Append(io, Event("write", ExamplesCsv))
    /\ pc' = "series"
    /\ UNCHANGED <<args, exc, disk, files, fi, fh, li, rows, now, since_dt, until_dt,
                   families, summary, series>>
    /\ UNCHANGED nmVars

\* Lines 663-699.
TimeSeries ==
    /\ pc = "series"
    /\ series' = CountFamilies(NoSeries, families)
    /\ io' = io \o <<Event("write", OverallDailyCsv),
                     Event("write", OverallHourlyCsv),
                     Event("write", FamilyDailyCsv),
                     Event("write", FamilyHourlyCsv)>>
    /\ pc' = "markdown"
    /\ UNCHANGED <<args, exc, disk, files, fi, fh, li, rows, now, since_dt, until_dt,
                   families, summary, example_rows>>
    /\ UNCHANGED nmVars

\* Lines 701-725; the optional PDF report of lines 727-740 writes no file of the
\* analysis and is left out.
Markdown ==
    /\ pc = "markdown"
    /\ io' = Append(io, Event("write", SummaryMarkdown))
    /\ pc' = "done"
    /\ UNCHANGED <<args, exc, disk, files, fi, fh, li, rows, now, since_dt, until_dt,
                   families, summary, example_rows, series>>
    /\ UNCHANGED nmVars

-----------------------------------------------------------------------------
(* Specifications. *)

GlobMain == Glob(Disks(MainLines, MaxLines))

GlobParse == Glob(Disks(ParseLines, MaxParseLines))

\* The command lines; the companion options of --kube-sync matter only with it.
ArgsSet ==
    {a \in [since : {None, Some(<<"1", "d">>), Some(<<"x", "y", "z">>)},
            until : {Some(<<"0", "h">>), Some(<<"s", "o", "o", "n">>)},
            examples : {0, 2},
            kube_sync : BOOLEAN, kube_complete : BOOLEAN] :
        a.kube_complete => a.kube_sync}

\* A whole run of main.
Init ==
    /\ NmIdle
    /\ \E a \in ArgsSet : RunStart(a)

Next ==
    \/ KubeCheck \/ KubeSync \/ MakeOutdir \/ ResolveWindow
    \/ GlobMain \/ Rotate \/ OpenFile \/ ReadLine \/ EndOfFile \/ ReturnRows
    \/ WriteRaw \/ Summarize \/ Examples \/ TimeSeries \/ Markdown

Spec == Init /\ [][Next]_vars

\* A call of parse_logs with a time window.
NoArgs ==
    [since |-> None, until |-> None, examples |-> 0,
     kube_sync |-> FALSE, kube_complete |-> FALSE]

InitParse ==
    /\ NmIdle
    /\ pc = "parse_logs"
    /\ args = NoArgs
    /\ exc = NoException
    /\ io = <<>>
    /\ disk = EmptyCounter
    /\ files = <<>>
    /\ fi = 0
    /\ fh = Closed
    /\ li = 0
    /\ rows = <<>>
    /\ now = None
    /\ since_dt \in {None, Some(DateTime(2024, 1, 15, 10, 30, 0, 123000))}
    /\ until_dt = Some(DateTime(2024, 1, 16, 10, 30, 0, 123000))
    /\ families = <<>>
    /\ summary = <<>>
    /\ example_rows = <<>>
    /\ series = NoSeries

NextParse == GlobParse \/ Rotate \/ OpenFile \/ ReadLine \/ EndOfFile \/ ReturnRows

SpecParse == InitParse /\ [][NextParse]_vars

InitNorm ==
    /\ nm_pc = "call"
    /\ nm_msg \in Messages
    /\ nm_text = <<>>
    /\ nm_ret = <<>>
    /\ RunStart(NoArgs)

NextNorm == NmSubstitute \/ NmClassify

SpecNorm == InitNorm /\ [][NextNorm]_vars

\* A run up to the start of parse_logs, over the relative-time expressions.  The
\* tokens an expression is built from, and the expressions of --since and --until:
\* the concatenations of at most MaxTokens tokens (the empty one included), a token
\* with a minus sign, "now" in mixed case, and two texts without a token; --until
\* is built from two of the tokens.
DeltaTokens ==
    {<<"1", "d">>, <<"2", "h">>, <<"1", "h">>, <<"3", "0", "m">>, <<"1", "w">>,
     <<"1", "0", " ", "s">>}

DeltaExprs ==
    {Concat(ts) : ts \in UNION {[1..n -> DeltaTokens] : n \in 0..MaxTokens}}
        \cup {<<"-", "1", "h">>, <<" ", "N", "o", "w", " ">>, <<"x", "y", "z">>, <<"7">>}

WindowArgs ==
    [since : {None} \cup {Some(e) : e \in DeltaExprs},
     until : {Some(e) : e \in
                 {Concat(ts) : ts \in UNION {[1..n -> {<<"1", "h">>, <<"3", "0", "m">>}] :
                                                n \in 0..MaxTokens}}
                     \cup {<<" ", "N", "o", "w", " ">>, <<"x", "y", "z">>}},
     examples : {0}, kube_sync : {FALSE}, kube_complete : {FALSE}]

InitWindow ==
    /\ NmIdle
    /\ \E a \in WindowArgs : RunStart(a)

NextWindow == KubeCheck \/ MakeOutdir \/ ResolveWindow

SpecWindow == InitWindow /\ [][NextWindow]_vars

-----------------------------------------------------------------------------
(* Properties of normalize_message (SpecNorm). *)

\* The five rules in their order: the triggers of each and its label.
C2_Triggers ==
    << {TrigWsiLogin, TrigWsi},
       {TrigCheckName, TrigNotUnique, TrigFnrce0043e},
       {TrigGetContent},
       {TrigFnrce0066e, TrigUnexpected},
       {TrigTtl} >>

C2_Labels == <<LabelWsi, LabelNameCollision, LabelGetContent, LabelUnexpected, LabelTtl>>

\* A trigger of rule k is in the text m.
C2_Fires(k, m) == \E t \in C2_Triggers[k] : Contains(m, t)

C2_Firing(m) == {k \in 1..Len(C2_Triggers) : C2_Fires(k, m)}

\* C2: normalize_message returns the label of the earliest of the five rules that has
\* a trigger in the normalized text, whatever later rules have one too, and returns
\* the fallback text (cut to 140 characters and an ellipsis) only when no rule has.
C2_FirstRuleWins ==
    nm_pc = "ret" =>
        IF C2_Firing(nm_text) # {}
        THEN nm_ret = C2_Labels[SetMin(C2_Firing(nm_text))]
        ELSE /\ nm_ret \notin {C2_Labels[k] : k \in 1..Len(C2_Labels)}
             /\ nm_ret = IF Len(nm_text) > 140
                         THEN SubSeq(nm_text, 1, 140) \o <<Ellipsis>>
                         ELSE nm_text

\* The text has the trigger of rule 5 before the one of rule 2, and the label
\* returned is the one of rule 2.
C2_Witness ==
    /\ nm_pc = "ret"
    /\ nm_text = TrigTtl \o TrigNotUnique
    /\ C2_Firing(nm_text) = {2, 5}
    /\ nm_ret = LabelNameCollision

\* C3: every message with the code FNRCE0043E and no trigger of rule 1 gets the label
\* of rule 2, and every message with the code FNRCE0066E and no trigger of rules 1 to
\* 3 gets the label of rule 4, the code standing alone as a whole word included.
C3_CodeAlwaysLabelled ==
    nm_pc = "ret" =>
        /\ (Contains(nm_msg, TrigFnrce0043e)
                /\ ~C2_Fires(1, nm_msg) /\ ~C2_Fires(1, nm_text))
              => nm_ret = LabelNameCollision
        /\ (Contains(nm_msg, TrigFnrce0066e)
                /\ \A k \in 1..3 : ~C2_Fires(k, nm_msg) /\ ~C2_Fires(k, nm_text))
              => nm_ret = LabelUnexpected

\* The positions of m where a standalone run of six or more digits starts: a run
\* with no word character before it and none behind it.
C13_StandaloneRuns(m) ==
    {i \in 1..Len(m) :
        /\ m[i] \in Digits
        /\ (i = 1 \/ m[i - 1] \notin WordChars)
        /\ RunLen(Digits, m, i) >= NumMinLen
        /\ (i + RunLen(Digits, m, i) > Len(m) \/ m[i + RunLen(Digits, m, i)] \notin WordChars)}

\* The positions of m where the text t starts.
C13_Occurrences(m, t) ==
    {i \in 1..(Len(m) - Len(t) + 1) : SubSeq(m, i, i + Len(t) - 1) = t}

\* C13: for a message that matches no rule (with no GUID, and short enough not to be
\* cut), every standalone run of six or more digits, whatever its length, shows as
\* {NUM} in the family returned: there are as many {NUM} as there are such runs.
C13_EveryDigitRunIsNum ==
    (nm_pc = "ret" /\ C2_Firing(nm_text) = {} /\ ~Contains(nm_msg, GuidText)
        /\ Len(nm_text) <= FamilyMaxLen)
      => Cardinality(C13_Occurrences(nm_ret, <<"{", "N", "U", "M", "}">>))
            = Cardinality(C13_StandaloneRuns(nm_msg))

-----------------------------------------------------------------------------
(* Properties of parse_logs (SpecParse). *)

\* a >= b on datetimes, by the day number and the time of day.
C1_AtOrAfter(a, b) ==
    LET da == ToOrdinal(a.year, a.month, a.day)
        db == ToOrdinal(b.year, b.month, b.day)
        sa == a.hour * 3600 + a.minute * 60 + a.second
        sb == b.hour * 3600 + b.minute * 60 + b.second
    IN  \/ da > db
        \/ da = db /\ sa > sb
        \/ da = db /\ sa = sb /\ a.microsecond >= b.microsecond

\* The line has the expected shape, a level that is ERROR or WARN in upper case, a
\* timestamp that parses, and lies in the window, both bounds included.
C1_Accepted(line) ==
    /\ LogLineMatch(line).matched
    /\ Upper(LogLineMatch(line).level) \in {LevelError, LevelWarn}
    /\ Strptime(LogLineMatch(line).ts) # None
    /\ since_dt # None => C1_AtOrAfter(Get(Strptime(LogLineMatch(line).ts)), Get(since_dt))
    /\ C1_AtOrAfter(Get(until_dt), Get(Strptime(LogLineMatch(line).ts)))

\* C1: a step of parse_logs over a line appends one record, that of the line, if and
\* only if the line is accepted (shape, level, timestamp, since <= t <= until); any
\* other line leaves rows as it is; in both cases no exception is raised.
C1_EmitsIffAccepted ==
    [][(pc = "read" /\ li' = li + 1) =>
        /\ exc' = NoException
        /\ pc' = "read"
        /\ IF C1_Accepted(fh[li])
           THEN /\ Len(rows') = Len(rows) + 1
                /\ SubSeq(rows', 1, Len(rows)) = rows
                /\ rows'[Len(rows')].timestamp = SubSeq(fh[li], 1, 23)
                /\ rows'[Len(rows')].level \in {LevelError, LevelWarn}
           ELSE rows' = rows]_vars

\* A line at the lower bound of the window was emitted and the line one millisecond
\* before it was skipped.
C1_Witness ==
    /\ pc = "read"
    /\ since_dt # None
    /\ fh = <<LineErrAtSince, LineBeforeSince>>
    /\ li = 3
    /\ Len(rows) = 1
    /\ rows[1].timestamp = SubSeq(LineErrAtSince, 1, 23)

\* The file files[k] was opened.
C7_Opened(k) == \E n \in 1..Len(io) : io[n] = Event("open", files[k])

\* The lines of files[k] that parse_logs has read so far.
C7_LinesRead(k) ==
    IF ~C7_Opened(k) THEN <<>>
    ELSE IF k = fi /\ pc = "read" THEN SubSeq(fh, 1, li - 1)
    ELSE [i \in 1..Len(disk[files[k]]) |-> Decode(disk[files[k]][i])]

\* The record a line of the file fp can give: none if the line has not the shape.
C7_RecordOf(line, fp) ==
    IF LogLineMatch(line).matched
    THEN <<Row(LogLineMatch(line).ts, Upper(LogLineMatch(line).level),
               LogLineMatch(line).msg, fp)>>
    ELSE <<>>

C7_RecordsOfFile(k) ==
    Concat([i \in 1..Len(C7_LinesRead(k)) |-> C7_RecordOf(C7_LinesRead(k)[i], files[k])])

\* The records of all lines read, file by file in the order of files, line by line.
C7_Candidates == Concat([k \in 1..Len(files) |-> C7_RecordsOfFile(k)])

\* a is a subsequence of b.
RECURSIVE C7_IsSubseq(_, _)
C7_IsSubseq(a, b) ==
    IF a = <<>> THEN TRUE
    ELSE IF b = <<>> THEN FALSE
    ELSE IF Head(a) = Head(b) THEN C7_IsSubseq(Tail(a), Tail(b))
    ELSE C7_IsSubseq(a, Tail(b))

\* C7: files is in ascending path order, and rows is a subsequence of the records of
\* the lines read, taken file by file in that order and line by line: records are in
\* file order, then line order, and no line gives two records.
C7_FileThenLineOrder ==
    pc \in {"open", "read", "write_raw"} =>
        /\ \A i, j \in 1..Len(files) : i < j => StrLess(files[i], files[j])
        /\ C7_IsSubseq(rows, C7_Candidates)

\* parse_logs has returned two records, the first of the first file, the second of
\* the second file.
C7_Witness ==
    /\ pc = "write_raw"
    /\ Len(files) = 2
    /\ Len(rows) = 2
    /\ rows[1].source_file = Basename(files[1])
    /\ rows[2].source_file = Basename(files[2])

\* The files whose open raised FileNotFoundError.
C10_NotFound ==
    {k \in 1..Len(files) : \E n \in 1..Len(io) : io[n] = Event("FileNotFoundError", files[k])}

\* The records of the file files[k] in the window of the call.
C10_RowsOfFile(k) ==
    Concat([i \in 1..Len(disk[files[k]]) |->
               ParseLine(Decode(disk[files[k]][i]), files[k], since_dt, until_dt)])

\* The records of the files that were opened, in the order of files.
C10_RowsOfOpened ==
    Concat([k \in 1..Len(files) |-> IF C7_Opened(k) THEN C10_RowsOfFile(k) ELSE <<>>])

\* C10: once the open of a file has raised FileNotFoundError the run goes on without
\* an exception, and parse_logs returns the records of the other files, each in the
\* place it has without the missing file.
C10_MissingFileSkipped ==
    C10_NotFound # {} =>
        /\ pc # "aborted"
        /\ exc = NoException
        /\ pc = "write_raw" => rows = C10_RowsOfOpened

\* The first of two files was gone at its open and parse_logs has returned the
\* records of the second.
C10_Witness ==
    /\ pc = "write_raw"
    /\ Len(files) = 2
    /\ C10_NotFound = {1}
    /\ Len(rows) >= 1

\* The character a decoder puts for a byte it cannot decode (U+FFFD).
C15_Marker == "REPLACEMENT_CHARACTER"

\* C15: parse_logs does not raise on bytes that cannot be decoded, and each line it
\* reads has, at the place of every such byte, the replacement marker: the decoded
\* line is as long as the line of the file and differs from it at those places only.
C15_BadByteReplaced ==
    pc = "read" =>
        /\ exc = NoException
        /\ \A i \in 1..Len(fh) :
              /\ Len(fh[i]) = Len(disk[files[fi]][i])
              /\ \A j \in 1..Len(fh[i]) :
                    fh[i][j] = IF disk[files[fi]][i][j] = BadByte THEN C15_Marker
                               ELSE disk[files[fi]][i][j]

-----------------------------------------------------------------------------
(* Properties of a whole run of main (Spec). *)

\* The family of each record of rows, by its place.
C4_FamilyOf == [n \in 1..Len(rows) |-> normalize_message(rows[n].message)]

\* The families of the records, fam the family of each.
C4_Families(fam) == {fam[n] : n \in DOMAIN fam}

\* The records of the family f, as places in rows.
C4_Members(fam, f) == {n \in DOMAIN fam : fam[n] = f}

\* The bucket keys of a record: the date, and the date with the hour.
C4_DayKey(r) == SubSeq(r.timestamp, 1, 10)

C4_HourKey(r) ==
    SubSeq(r.timestamp, 1, 10) \o <<" ">> \o SubSeq(r.timestamp, 12, 13) \o <<":", "0", "0">>

\* The sum of the counts of the keys K of the counter c.
RECURSIVE C4_SumOver(_, _)
C4_SumOver(c, K) ==
    IF K = {} THEN 0
    ELSE LET k == CHOOSE x \in K : TRUE IN c[k] + C4_SumOver(c, K \ {k})

C4_Sum(c) == C4_SumOver(c, DOMAIN c)

\* The sum over the families F of the count of the key k in the counter of each.
RECURSIVE C4_FamilySum(_, _, _)
C4_FamilySum(fc, F, k) ==
    IF F = {} THEN 0
    ELSE LET f == CHOOSE x \in F : TRUE
         IN  (IF k \in DOMAIN fc[f] THEN fc[f][k] ELSE 0) + C4_FamilySum(fc, F \ {f}, k)

RECURSIVE C4_SummaryTotal(_)
C4_SummaryTotal(s) == IF s = <<>> THEN 0 ELSE Head(s).count + C4_SummaryTotal(Tail(s))

\* C4: after the aggregation the counts of the summary sum to the number of records,
\* and so do the overall daily counts and the overall hourly counts; for each key the
\* family counts sum to the overall count; and each count is the number of the
\* records of that key (and family): a record is counted once in its day and its
\* hour, overall and under its own family, and under no other family.
C4_CountsAddUp ==
    pc \in {"markdown", "done"} =>
      LET fam == C4_FamilyOf IN
        /\ C4_SummaryTotal(summary) = Len(rows)
        /\ C4_Sum(series.daily) = Len(rows)
        /\ C4_Sum(series.hourly) = Len(rows)
        /\ DOMAIN series.fam_daily = C4_Families(fam)
        /\ DOMAIN series.fam_hourly = C4_Families(fam)
        /\ \A f \in C4_Families(fam) :
              /\ DOMAIN series.fam_daily[f] \subseteq DOMAIN series.daily
              /\ DOMAIN series.fam_hourly[f] \subseteq DOMAIN series.hourly
              /\ \A k \in DOMAIN series.fam_daily[f] :
                    series.fam_daily[f][k] =
                        Cardinality({n \in C4_Members(fam, f) : C4_DayKey(rows[n]) = k})
              /\ \A k \in DOMAIN series.fam_hourly[f] :
                    series.fam_hourly[f][k] =
                        Cardinality({n \in C4_Members(fam, f) : C4_HourKey(rows[n]) = k})
              /\ C4_Sum(series.fam_daily[f]) = Cardinality(C4_Members(fam, f))
              /\ C4_Sum(series.fam_hourly[f]) = Cardinality(C4_Members(fam, f))
        /\ \A k \in DOMAIN series.daily :
              /\ C4_FamilySum(series.fam_daily, C4_Families(fam), k) = series.daily[k]
              /\ series.daily[k] = Cardinality({n \in 1..Len(rows) : C4_DayKey(rows[n]) = k})
        /\ \A k \in DOMAIN series.hourly :
              /\ C4_FamilySum(series.fam_hourly, C4_Families(fam), k) = series.hourly[k]
              /\ series.hourly[k] =
                     Cardinality({n \in 1..Len(rows) : C4_HourKey(rows[n]) = k})

\* Three records of two families over two days have been aggregated, two of them in
\* the same bucket of the same family.
C4_Witness ==
    /\ pc = "done"
    /\ Len(rows) = 3
    /\ DOMAIN series.fam_hourly = {LabelWsi, LabelNameCollision}
    /\ Cardinality(DOMAIN series.daily) = 2
    /\ \E k \in DOMAIN series.fam_hourly[LabelWsi] : series.fam_hourly[LabelWsi][k] = 2

\* The place of the first record of the family f in rows.
C5_FirstSeen(fam, f) == SetMin(C4_Members(fam, f))

\* C5: the summary has one entry for each family of the records and no other, with
\* the number of the records of the family as its count; the counts go down along
\* it, and of two families with the same count the one seen first in rows is first.
C5_SummaryOrder ==
    pc \in {"examples", "series", "markdown", "done"} =>
      LET fam == C4_FamilyOf IN
        /\ Len(summary) = Cardinality(C4_Families(fam))
        /\ {summary[i].family : i \in 1..Len(summary)} = C4_Families(fam)
        /\ \A i \in 1..Len(summary) :
              summary[i].count = Cardinality(C4_Members(fam, summary[i].family))
        /\ \A i, j \in 1..Len(summary) :
              i < j =>
                 \/ summary[i].count > summary[j].count
                 \/ /\ summary[i].count = summary[j].count
                    /\ C5_FirstSeen(fam, summary[i].family) < C5_FirstSeen(fam, summary[j].family)

\* Two families with one record each: the one seen first is first in the summary,
\* against the order of the labels.
C5_Witness ==
    /\ pc = "done"
    /\ Len(rows) = 2
    /\ Len(summary) = 2
    /\ summary[1].count = summary[2].count
    /\ summary[1].family = C4_FamilyOf[1]
    /\ StrLess(summary[2].family, summary[1].family)

\* The number of examples asked for, at least one.
C6_K == IF args.examples < 1 THEN 1 ELSE args.examples

\* The instant the timestamp of each record denotes: the day number, the second of
\* the day, the microsecond.
C6_InstantOf ==
    [n \in 1..Len(rows) |->
        LET dt == Get(Strptime(rows[n].timestamp))
        IN  <<ToOrdinal(dt.year, dt.month, dt.day),
              dt.hour * 3600 + dt.minute * 60 + dt.second,
              dt.microsecond>>]

\* The instant a is earlier than the instant b.
C6_Earlier(a, b) ==
    \/ a[1] < b[1]
    \/ a[1] = b[1] /\ a[2] < b[2]
    \/ a[1] = b[1] /\ a[2] = b[2] /\ a[3] < b[3]

\* The place of rows[n] among the records of its family by time, equal times in the
\* order of rows; fam is the family and at the instant of each record.
C6_Rank(fam, at, n) ==
    1 + Cardinality({m \in C4_Members(fam, fam[n]) :
                        C6_Earlier(at[m], at[n]) \/ (at[m] = at[n] /\ m < n)})

\* The examples listed under the family f, in their order.
RECURSIVE C6_ExamplesOf(_, _)
C6_ExamplesOf(ex, f) ==
    IF ex = <<>> THEN <<>>
    ELSE (IF Head(ex).family = f THEN <<Head(ex)>> ELSE <<>>) \o C6_ExamplesOf(Tail(ex), f)

\* C6: under each family are listed its min(k, size) earliest records, k the number
\* asked for and at least 1, in ascending order of time with equal times in the
\* order of rows; every example is listed under a family of the records and is a
\* record of that family.
C6_EarliestExamples ==
    pc \in {"series", "markdown", "done"} =>
      LET fam == C4_FamilyOf
          at == C6_InstantOf
      IN
        /\ \A i \in 1..Len(example_rows) : example_rows[i].family \in C4_Families(fam)
        /\ \A f \in C4_Families(fam) :
              LET listed == C6_ExamplesOf(example_rows, f)
              IN  /\ Len(listed) = Min2(C6_K, Cardinality(C4_Members(fam, f)))
                  /\ \A i \in 1..Len(listed) :
                        \E n \in C4_Members(fam, f) :
                           /\ C6_Rank(fam, at, n) = i
                           /\ listed[i] =
                                 [family |-> f,
                                  timestamp |-> rows[n].timestamp,
                                  source_file |-> rows[n].source_file,
                                  message |-> rows[n].message]

\* With --examples 0 a family of two records has one example, its earlier record,
\* which is not the one read first.
C6_Witness ==
    /\ pc = "done"
    /\ args.examples = 0
    /\ Len(rows) = 2
    /\ C4_Families(C4_FamilyOf) = {LabelWsi}
    /\ Len(example_rows) = 1
    /\ example_rows[1].message = rows[2].message
    /\ rows[1].message # rows[2].message

\* C8: when --since or --until is no valid expression, or since is later than until,
\* the run ends before any file I/O: no copy from the pods, no output directory, no
\* listing or reading of log files, no output file.
C8_AbortsBeforeAnyIO ==
    (pc = "aborted" /\ exc.reason \in {"since", "until", "since_after_until"}) => io = <<>>

\* An event of the run that writes an output file.
C9_Writes == {n \in 1..Len(io) : io[n].op = "write"}

\* C9: a run that aborts on a configuration error (no log files, an invalid time
\* expression, since later than until, --kube-sync without its companion options)
\* has written none of the output files; with no log files it has opened no file
\* and holds no record.
C9_NoOutputOnAbort ==
    (pc = "aborted" /\ exc.reason \in {"no_log_files", "since", "until",
                                        "since_after_until", "kube_sync_requires"}) =>
        /\ C9_Writes = {}
        /\ \A n \in 1..Len(io) : io[n].target \notin OutputFiles
        /\ exc.reason = "no_log_files" =>
              /\ \A n \in 1..Len(io) : io[n].op \notin {"open", "FileNotFoundError"}
              /\ rows = <<>>
              /\ fh = Closed
              /\ li = 0

\* The run has made the output directory, has found no log file and has aborted.
C9_Witness ==
    /\ pc = "aborted"
    /\ exc = Exception("SystemExit", "no_log_files")
    /\ files = <<>>
    /\ \E n \in 1..Len(io) : io[n] = Event("makedirs", OutDir)
    /\ \E n \in 1..Len(io) : io[n].op = "glob"

-----------------------------------------------------------------------------
(* Properties of the time window (SpecWindow). *)

\* The seconds from the datetime a to the datetime b, both with the same microsecond.
C11_SecondsFromTo(a, b) ==
    (ToOrdinal(b.year, b.month, b.day) - ToOrdinal(a.year, a.month, a.day)) * 86400
        + (b.hour - a.hour) * 3600 + (b.minute - a.minute) * 60 + (b.second - a.second)

\* --since is given: args.since is neither None nor the empty string.
C11_SinceGiven == args.since # None /\ args.since # Some(<<>>)

\* C11: whenever parse_logs starts, until is now plus the duration of --until; since
\* is now minus the duration of --since when --since is given and absent when it is
\* not; and since, if present, is not later than until: a run whose since is later
\* than until does not get to parse_logs.
C11_WindowAtIngestion ==
    pc = "parse_logs" =>
        /\ now # None /\ until_dt # None
        /\ Get(until_dt).microsecond = Get(now).microsecond
        /\ C11_SecondsFromTo(Get(now), Get(until_dt)) = parse_relative_delta(args.until).seconds
        /\ IF C11_SinceGiven
           THEN /\ since_dt # None
                /\ Get(since_dt).microsecond = Get(now).microsecond
                /\ C11_SecondsFromTo(Get(since_dt), Get(now))
                      = parse_relative_delta(args.since).seconds
                /\ C11_SecondsFromTo(Get(since_dt), Get(until_dt)) >= 0
           ELSE since_dt = None

\* parse_logs starts with since one day before now and until one hour after it.
C11_Witness ==
    /\ pc = "parse_logs"
    /\ args.since = Some(<<"1", "d">>)
    /\ args.until = Some(<<"1", "h">>)
    /\ since_dt = Some(DateTime(2024, 1, 15, 10, 30, 0, 123000))
    /\ until_dt = Some(DateTime(2024, 1, 16, 11, 30, 0, 123000))

\* The duration of a token of DeltaTokens, in seconds.
C12_TokenSeconds(t) ==
    IF t = <<"1", "w">> THEN 604800
    ELSE IF t = <<"1", "d">> THEN 86400
    ELSE IF t = <<"2", "h">> THEN 7200
    ELSE IF t = <<"1", "h">> THEN 3600
    ELSE IF t = <<"3", "0", "m">> THEN 1800
    ELSE 10

RECURSIVE C12_Sum(_)
C12_Sum(ts) == IF ts = <<>> THEN 0 ELSE C12_TokenSeconds(Head(ts)) + C12_Sum(Tail(ts))

C12_TokenSeqs == UNION {[1..n -> DeltaTokens] : n \in 1..MaxTokens}

C12_Reverse(ts) == [i \in 1..Len(ts) |-> ts[Len(ts) + 1 - i]]

\* C12: the duration of an expression made of tokens is the sum of the durations of
\* its tokens: the window lies that sum before (--since) and behind (--until) now,
\* the tokens in the opposite order give the same duration, and a unit given twice
\* counts twice.
C12_SumOfTokens ==
    pc = "parse_logs" =>
        \A ts \in C12_TokenSeqs :
            /\ args.until = Some(Concat(ts)) =>
                  /\ C11_SecondsFromTo(Get(now), Get(until_dt)) = C12_Sum(ts)
                  /\ parse_relative_delta(Some(Concat(C12_Reverse(ts))))
                        = [kind |-> "timedelta", seconds |-> C12_Sum(ts)]
            /\ args.since = Some(Concat(ts)) =>
                  /\ C11_SecondsFromTo(Get(since_dt), Get(now)) = C12_Sum(ts)
                  /\ parse_relative_delta(Some(Concat(C12_Reverse(ts))))
                        = [kind |-> "timedelta", seconds |-> C12_Sum(ts)]

\* --since 2h1d resolves to 26 hours before now, as 1d2h does, and --until 1h1h to
\* two hours behind now.
C12_Witness ==
    /\ pc = "parse_logs"
    /\ args.since = Some(<<"2", "h", "1", "d">>)
    /\ args.until = Some(<<"1", "h", "1", "h">>)
    /\ since_dt = Some(DateTime(2024, 1, 15, 8, 30, 0, 123000))
    /\ until_dt = Some(DateTime(2024, 1, 16, 12, 30, 0, 123000))
    /\ parse_relative_delta(Some(<<"1", "d", "2", "h">>)) = parse_relative_delta(args.since)

\* C16: for expressions parse_relative_delta accepts, the durations are not negative
\* and the window has since <= now <= until: the run never aborts because since is
\* later than until, and until is never before now.
C16_SinceNowUntil ==
    /\ \A e \in {args.since, args.until} :
          parse_relative_delta(e).kind = "timedelta" => parse_relative_delta(e).seconds >= 0
    /\ pc = "parse_logs" =>
          /\ C1_AtOrAfter(Get(until_dt), Get(now))
          /\ since_dt # None => C1_AtOrAfter(Get(now), Get(since_dt))
    /\ pc = "aborted" => exc.reason # "since_after_until"

\* --since -1h is accepted, the sign being no part of the token, and resolves to one
\* hour before now; until is behind now.
C16_Witness ==
    /\ pc = "parse_logs"
    /\ args.since = Some(<<"-", "1", "h">>)
    /\ args.until = Some(<<"3", "0", "m">>)
    /\ since_dt = Some(DateTime(2024, 1, 16, 9, 30, 0, 123000))
    /\ until_dt = Some(DateTime(2024, 1, 16, 11, 0, 0, 123000))

====
